---- MODULE Spec2Model ----
(***************************************************************************)
(* Wasmify: the WebAssembly runtime wrapper (lib/wasm-runtime.ts, kept as  *)
(* src/unnamed/part_001), the upload validator (lib/file-storage.ts, kept  *)
(* as src/unnamed/part_009) and the POST /api/wasm/execute handler.        *)
(*                                                                         *)
(* The runtime is a singleton on a single-threaded event loop: every       *)
(* action below is one synchronous segment of an async function, from the  *)
(* call (or the resumption of an await) to the next await or return.       *)
(***************************************************************************)
EXTENDS Integers, Sequences, FiniteSets, TLC

VARIABLES
    moduleCache,      \* WebAssemblyRuntime.moduleCache: module ID -> entry
    activeInstances,  \* WebAssemblyRuntime.activeInstances: instance ID -> record
    now,              \* the wall clock read by Date.now() / new Date(), in ms
    files,            \* the file system read by fs.readFile: path -> content
    calls,            \* the calls in flight or finished: slot -> activation record
    uploads,          \* the temporary files in the uploads directory
    vfile,            \* the buffer handed to FileStorageService.validateWasmFile
    vresult,          \* what validateWasmFile did with it
    loadedSinceClear, \* history: the loads that returned since the last clearCache
    stats,            \* what the last call of getStats returned
    deployments,      \* the deployment table: id -> row
    timers,           \* the setTimeout callbacks pending: deployment ids
    serverRunning,    \* the Next.js server process is alive
    usageRecords,     \* the usageRecord rows of one user, metric and period
    usageCalls,       \* POST usage requests: slot -> activation record
    alerts,           \* MonitoringService.alerts
    monitorReqs,      \* requests to the monitoring API server: slot -> record
    webhooks,         \* Stripe webhook deliveries: slot -> activation record
    hook,             \* useWebSocket: its state, its socket, the closures handed out
    wire              \* the events the socket has put on the connection

\* the runtime's state apart from the clock
runtimeState ==
    <<moduleCache, activeInstances, files, calls, uploads, vfile, vresult,
      loadedSinceClear, stats>>

deployVars == <<deployments, timers, serverRunning>>

usageVars == <<usageRecords, usageCalls>>

monitorVars == <<alerts, monitorReqs>>

stripeVars == <<webhooks>>

socketVars == <<hook, wire>>

\* the state of the services around the runtime
serviceVars == <<deployVars, usageVars, monitorVars, stripeVars, socketVars>>

vars ==
    <<moduleCache, activeInstances, now, files, calls, uploads, vfile, vresult,
      loadedSinceClear, stats, serviceVars>>

---------------------------------------------------------------------------
(* Bounds of the model *)

\* call slots: each slot holds one call, in flight or finished
MaxCalls == 2
\* the slots that HttpSpec gives to POST /api/wasm/execute requests
MaxRequests == 1

Slots == 1..MaxCalls

HttpSlots == 1..MaxRequests

None == "none"

---------------------------------------------------------------------------
(* Buffers.  A Buffer is its length, its first (up to 8) bytes and a tag   *)
(* standing for the bytes after the header; two buffers hold the same      *)
(* bytes iff the records are equal.                                        *)

Buffer(head, length, body) ==
    [type |-> "Buffer", head |-> head, length |-> length, body |-> body]

\* a JavaScript string (the wasmData argument when it is a file path)
String(s) == [type |-> "string", value |-> s]

Undefined == [type |-> "undefined"]

Null == [type |-> "null"]

Number(n) == [type |-> "number", value |-> n]

\* "\0asm" followed by version 1, little endian
WasmHeader == <<0, 97, 115, 109, 1, 0, 0, 0>>

\* Buffer.readUInt32LE(offset): RangeError when the 4 bytes are not there
readUInt32LE(buf, offset) ==
    IF offset + 4 > buf.length
    THEN [threw |-> TRUE, value |-> 0]
    ELSE [threw |-> FALSE,
          value |-> buf.head[offset + 1] + 256 * buf.head[offset + 2]
                    + 65536 * buf.head[offset + 3] + 16777216 * buf.head[offset + 4]]

\* 0x6d736100
WasmMagic == 1836278016

\* the only version accepted
WasmVersion == 1

\* 100 * 1024 * 1024, the largest upload accepted
MaxWasmFileSize == 100 * 1024 * 1024

Ok == [threw |-> FALSE, message |-> ""]

Throw(message) == [threw |-> TRUE, message |-> message]

RangeErrorMessage == "The value of \"offset\" is out of range"

\* validateWasmBinary without its check of the version field
validateWasmBinary_MagicOnly(buffer) ==
    LET magic == readUInt32LE(buffer, 0)
    IN  IF magic.threw THEN Throw(RangeErrorMessage)
        ELSE IF magic.value # WasmMagic
        THEN Throw("Invalid WebAssembly binary: wrong magic number")
        ELSE Ok

\* WebAssemblyRuntime.validateWasmBinary: no length check of its own
validateWasmBinary(buffer) ==
    LET magic == readUInt32LE(buffer, 0)
        version == readUInt32LE(buffer, 4)
    IN  IF magic.threw THEN Throw(RangeErrorMessage)
        ELSE IF magic.value # WasmMagic
        THEN Throw("Invalid WebAssembly binary: wrong magic number")
        ELSE IF version.threw THEN Throw(RangeErrorMessage)
        ELSE IF version.value # WasmVersion
        THEN Throw("Unsupported WebAssembly version: " \o ToString(version.value))
        ELSE Ok

\* validateWasmFile with the version checked before the magic number
validateWasmFile_VersionFirst(file) ==
    LET magic == readUInt32LE(file, 0)
        version == readUInt32LE(file, 4)
    IN  IF file.length < 8
        THEN Throw("File too small to be a valid WebAssembly module")
        ELSE IF version.value # WasmVersion
        THEN Throw("Unsupported WebAssembly version: " \o ToString(version.value))
        ELSE IF magic.value # WasmMagic
        THEN Throw("Invalid WebAssembly file: wrong magic number")
        ELSE IF file.length > MaxWasmFileSize
        THEN Throw("WebAssembly file too large (max 100MB)")
        ELSE Ok

\* validateWasmFile without its version check
validateWasmFile_AnyVersion(file) ==
    LET magic == readUInt32LE(file, 0)
    IN  IF file.length < 8
        THEN Throw("File too small to be a valid WebAssembly module")
        ELSE IF magic.value # WasmMagic
        THEN Throw("Invalid WebAssembly file: wrong magic number")
        ELSE IF file.length > MaxWasmFileSize
        THEN Throw("WebAssembly file too large (max 100MB)")
        ELSE Ok

\* FileStorageService.validateWasmFile
validateWasmFile(file) ==
    LET magic == readUInt32LE(file, 0)
        version == readUInt32LE(file, 4)
    IN  IF file.length < 8
        THEN Throw("File too small to be a valid WebAssembly module")
        ELSE IF magic.threw THEN Throw(RangeErrorMessage)
        ELSE IF magic.value # WasmMagic
        THEN Throw("Invalid WebAssembly file: wrong magic number")
        ELSE IF version.threw THEN Throw(RangeErrorMessage)
        ELSE IF version.value # WasmVersion
        THEN Throw("Unsupported WebAssembly version: " \o ToString(version.value))
        ELSE IF file.length > MaxWasmFileSize
        THEN Throw("WebAssembly file too large (max 100MB)")
        ELSE Ok

---------------------------------------------------------------------------
(* Inputs of the model *)

ModA == Buffer(WasmHeader, 9, "codeA")

ModB == Buffer(WasmHeader, 9, "codeB")

\* a well-formed header followed by bytes the engine cannot compile
Malformed == Buffer(WasmHeader, 9, "garbage")

BadMagic == Buffer(<<0, 97, 115, 110, 1, 0, 0, 0>>, 9, "codeA")

Paths == {"a.wasm"}

FileContents == {ModA, ModB}

\* the wasmData arguments given to loadModule
WasmDataArgs == {ModA, Malformed, BadMagic} \cup {String(p) : p \in Paths}

\* the bytes instance.exports.memory.buffer holds (0: the module exports no memory)
MemoryOf(module) == IF module.compiledFrom.body = "codeA" THEN 65536 ELSE 0

\* WasmModuleConfig / WasmExecutionConfig; maxExecutionTime 0 stands for "not set",
\* memory is { min, max } in pages of 64 KiB when it is set
Config(enableWasi, maxExecutionTime) ==
    [enableWasi |-> enableWasi, maxExecutionTime |-> maxExecutionTime,
     memory |-> Undefined]

DefaultConfig == Config(FALSE, 0)

TimeoutConfig == Config(FALSE, 1)

WasiConfig == Config(TRUE, 0)

\* { memory: { min: 0, max: 0 } }: the instance may hold no memory at all
MemoryLimitConfig ==
    [DefaultConfig EXCEPT !.memory = [type |-> "limits", min |-> 0, max |-> 0]]

\* what a compiled module exports: a function that returns its first argument,
\* one that traps and one that never returns
GuestFunctions == {"identity", "trap", "spin"}

FunctionNames == GuestFunctions \cup {"missing"}

ArgLists == {<<Number(42)>>}

---------------------------------------------------------------------------
(* The embedded engine (wasmtime), as the runtime uses it *)

\* engine.module(wasmBuffer): resolves with a compiled module or rejects
EngineModule(wasmBuffer) ==
    IF wasmBuffer.body = "garbage"
    THEN [threw |-> TRUE, message |-> "CompileError", module |-> Undefined]
    ELSE [threw |-> FALSE, message |-> "",
          module |-> [type |-> "Module", compiledFrom |-> wasmBuffer]]

\* instance.get(functionName): the exported function, or undefined
InstanceGet(instance, functionName) ==
    IF functionName \in GuestFunctions THEN String(functionName) ELSE Undefined

---------------------------------------------------------------------------
(* WebAssemblyRuntime: pure helpers *)

\* crypto.createHash('sha256').update(wasmData).digest('hex').substring(0, 16):
\* the digest of the ARGUMENT, the path string itself when wasmData is a path
Sha256Hex16(data) ==
    IF data.type = "string"
    THEN "sha256:" \o data.value
    ELSE "sha256:" \o ToString(data.head) \o ToString(data.length) \o data.body

generateModuleId(wasmData) == Sha256Hex16(wasmData)

generateInstanceId(moduleId, functionName, dateNow) ==
    moduleId \o "-" \o functionName \o "-" \o ToString(dateNow)

\* 5 * 60 * 1000
expireTime == 5 * 60 * 1000

ExecutionFailure(message) ==
    [result |-> Null, executionTime |-> 0, memoryUsed |-> 0, instructions |-> 0,
     success |-> FALSE, error |-> message]

\* the success result without the value the guest returned
ExecutionSuccess_NoValue(result, executionTime, memoryUsed, instructions) ==
    [result |-> Null, executionTime |-> executionTime, memoryUsed |-> memoryUsed,
     instructions |-> instructions, success |-> TRUE, error |-> ""]

ExecutionSuccess(result, executionTime, memoryUsed, instructions) ==
    [result |-> result, executionTime |-> executionTime, memoryUsed |-> memoryUsed,
     instructions |-> instructions, success |-> TRUE, error |-> ""]

\* Math.floor(Math.random() * 100000) + 1000 lies in 1000..100999
InstructionCounts == {1000, 100999}

getMemoryUsage(instance) == instance.memory

---------------------------------------------------------------------------
(* Activation records *)

NoResult == ExecutionFailure("")

\* NextResponse.json(body, { status })
Response(status, success, error, moduleId, result) ==
    [status |-> status, success |-> success, error |-> error, moduleId |-> moduleId,
     result |-> result]

NoResponse == Response(0, FALSE, "", None, NoResult)

NoRequest ==
    [form |-> None, wasmFile |-> Undefined, name |-> "", functionName |-> None,
     args |-> <<>>, config |-> DefaultConfig]

NoUpload == [called |-> FALSE, threw |-> FALSE, message |-> "", stored |-> FALSE]

\* getStats has not been called
NoStats ==
    [loadedModules |-> 0, activeInstances |-> 0, totalMemoryUsage |-> 0,
     cacheHitRate |-> 0, called |-> FALSE]

IdleCall ==
    [kind |-> None, pc |-> "idle",
     \* arguments
     wasmData |-> Undefined, config |-> DefaultConfig,
     moduleId |-> None, functionName |-> None, args |-> <<>>,
     \* locals
     wasmBuffer |-> Undefined, module |-> Undefined, instance |-> Undefined,
     instanceId |-> None, startTime |-> 0,
     \* how loadModule ended: "pending", "returned" (loadValue) or "threw" (loadError)
     loadOutcome |-> "pending", loadValue |-> None, loadError |-> "",
     \* how executeFunction ended: "pending", "returned" (result) or "threw"
     execOutcome |-> "pending", result |-> NoResult,
     \* POST /api/wasm/execute: the request, the temporary file, the response
     request |-> NoRequest, filePath |-> None, response |-> NoResponse,
     \* history, read by the properties only
     binary |-> Undefined, compiled |-> FALSE, hit |-> FALSE, invoked |-> FALSE,
     \* what activeInstances.delete(instanceId) returned, once it was called
     deleted |-> FALSE]

\* POST usage: no request in the slot
IdleUsage == [pc |-> "idle", value |-> 0, totalUsage |-> 0, status |-> 0]

\* the monitoring API server: no request in the slot
NoHttpRequest ==
    [pc |-> "idle", method |-> None, url |-> None, responses |-> 0, status |-> 0]

\* the Stripe webhook endpoint: no delivery in the slot
IdleWebhook ==
    [pc |-> "idle", type |-> None, signature |-> FALSE, user |-> FALSE,
     updated |-> FALSE, failed |-> FALSE, status |-> 0, received |-> FALSE]

\* useWebSocket before its effect has run: useState(false), useRef(null)
UnmountedHook ==
    [mounted |-> FALSE, socket |-> None, connected |-> FALSE,
     \* the isConnected state, and its value in the closures of the last render
     isConnected |-> FALSE, rendered |-> FALSE,
     \* what socket.io-client holds back while the socket is not connected
     sendBuffer |-> <<>>,
     \* the calls of sendMessage, joinRoom and leaveRoom made so far
     emits |-> 0]

\* the services around the runtime, before any request
ServicesInit ==
    /\ deployments = [id \in {} |-> Undefined]
    /\ timers = {}
    /\ serverRunning = TRUE
    /\ usageRecords = <<>>
    /\ usageCalls = [s \in Slots |-> IdleUsage]
    /\ alerts = <<>>
    /\ monitorReqs = [s \in Slots |-> NoHttpRequest]
    /\ webhooks = [s \in Slots |-> IdleWebhook]
    /\ hook = UnmountedHook
    /\ wire = <<>>

Init ==
    /\ moduleCache = [id \in {} |-> Undefined]
    /\ activeInstances = [id \in {} |-> Undefined]
    /\ now = 0
    /\ files \in [Paths -> FileContents]
    /\ calls = [s \in Slots |-> IdleCall]
    /\ uploads = {}
    /\ vfile = Undefined
    /\ vresult = NoUpload
    /\ loadedSinceClear = {}
    /\ stats = NoStats
    /\ ServicesInit

\* the runtime behind the HTTP handler: no load by path, the files do not matter
InitHttp == Init /\ files = [p \in Paths |-> ModA]

\* Map.set(key, value)
MapSet(map, key, value) ==
    [k \in DOMAIN map \cup {key} |-> IF k = key THEN value ELSE map[k]]

\* Map.delete(key)
MapDelete(map, key) == [k \in DOMAIN map \ {key} |-> map[k]]

\* Map.has(key), which is also what Map.delete(key) returns
MapHas(map, key) == key \in DOMAIN map

\* slots are taken in order
CanStart(s) ==
    /\ calls[s].pc = "idle"
    /\ IF s = 1 THEN TRUE ELSE calls[s - 1].pc # "idle"

---------------------------------------------------------------------------
(* loadModule *)

\* the bytes of the binary a loadModule call is about, at the time of the call
BinaryOf(wasmData) ==
    IF wasmData.type = "string" THEN files[wasmData.value] ELSE wasmData

\* where a call goes when its loadModule / executeFunction part is over
AfterLoad(c) == IF c.kind = "post" THEN "loaded" ELSE "done"

\* (the handler goes on to call unlink(filePath) as soon as the result is there)
AfterExec(c) == IF c.kind = "post" THEN "unlinking" ELSE "done"

LoadReturn(c, moduleId) ==
    [c EXCEPT !.pc = AfterLoad(c), !.loadOutcome = "returned", !.loadValue = moduleId]

\* catch (error) { throw new Error(`Failed to load WebAssembly module: ...`) }
LoadThrow(c, message) ==
    [c EXCEPT !.pc = AfterLoad(c), !.loadOutcome = "threw",
              !.loadError = "Failed to load WebAssembly module: " \o message]

\* validateWasmBinary(wasmBuffer), then the call of engine.module(wasmBuffer)
ValidateAndCompile(c, wasmBuffer) ==
    LET v == validateWasmBinary(wasmBuffer)
    IN  IF v.threw
        THEN LoadThrow(c, v.message)
        ELSE [c EXCEPT !.pc = "compiling", !.wasmBuffer = wasmBuffer, !.compiled = TRUE]

\* loadModule without its cache check
CacheHas_Never(moduleId) == FALSE

\* the cache check of loadModule
CacheHas(moduleId) == moduleId \in DOMAIN moduleCache

\* loadModule from its call to its first await (or to its return)
LoadModuleEntry(c0, wasmData, config) ==
    LET moduleId == generateModuleId(wasmData)
        c == [c0 EXCEPT !.wasmData = wasmData, !.config = config, !.moduleId = moduleId,
                        !.binary = BinaryOf(wasmData)]
    IN  IF CacheHas(moduleId)
        THEN [LoadReturn(c, moduleId) EXCEPT !.hit = TRUE]
        ELSE IF wasmData.type = "string"
        THEN [c EXCEPT !.pc = "reading"]
        ELSE ValidateAndCompile(c, wasmData)

\* history: c is what a call has become in this step
Loaded(c) ==
    IF c.loadOutcome = "returned"
    THEN loadedSinceClear \cup {[wasmData |-> c.wasmData, moduleId |-> c.loadValue]}
    ELSE loadedSinceClear

\* the loadModule calls made
LoadRequests ==
    {[wasmData |-> d, config |-> DefaultConfig] : d \in WasmDataArgs}
    \cup {[wasmData |-> ModA, config |-> TimeoutConfig]}

\* a caller calls loadModule with one of the given requests
LoadModuleFrom(s, requests) ==
    /\ CanStart(s)
    /\ \E r \in requests :
          LET c == LoadModuleEntry([IdleCall EXCEPT !.kind = "load"],
                                   r.wasmData, r.config)
          IN  /\ calls' = [calls EXCEPT ![s] = c]
              /\ loadedSinceClear' = Loaded(c)
    /\ UNCHANGED <<moduleCache, activeInstances, now, files, uploads, vfile, vresult,
                   stats, serviceVars>>

LoadModule(s) == LoadModuleFrom(s, LoadRequests)

\* headers that differ from the WebAssembly header in at most one byte
NearHeaders ==
    {[i \in 1..8 |-> IF i = altered THEN WasmHeader[i] + 1 ELSE WasmHeader[i]] :
        altered \in 0..8}

BufferLengths == {0, 3, 4, 7, 8, 9}

\* buffers of every such length, cut from every such header
ProbeBuffers ==
    {Buffer(SubSeq(h, 1, IF n < 8 THEN n ELSE 8), n, IF n > 8 THEN "codeA" ELSE "") :
        h \in NearHeaders, n \in BufferLengths}

\* loadModule called with a buffer that may be too short or have an altered header
LoadBuffer(s) ==
    LoadModuleFrom(s, {[wasmData |-> b, config |-> DefaultConfig] : b \in ProbeBuffers})

\* await fs.readFile(wasmData) resolves with the content the file has now
LoadFileRead(s) ==
    /\ calls[s].pc = "reading"
    /\ calls' = [calls EXCEPT ![s] =
                    ValidateAndCompile(calls[s], files[calls[s].wasmData.value])]
    /\ UNCHANGED <<moduleCache, activeInstances, now, files, uploads, vfile, vresult,
                   loadedSinceClear, stats, serviceVars>>

CacheEntry(module, config, loadedAt, size) ==
    [module |-> module, config |-> config, loadedAt |-> loadedAt, size |-> size]

\* await engine.module(wasmBuffer) settles; on success the module is cached
LoadCompiled(s) ==
    LET c == calls[s]
        compiled == EngineModule(c.wasmBuffer)
    IN  /\ c.pc = "compiling"
        /\ IF compiled.threw
           THEN /\ calls' = [calls EXCEPT ![s] = LoadThrow(c, compiled.message)]
                /\ UNCHANGED <<moduleCache, loadedSinceClear>>
           ELSE /\ moduleCache' =
                      MapSet(moduleCache, c.moduleId,
                             CacheEntry(compiled.module, c.config, now, c.wasmBuffer.length))
                /\ calls' = [calls EXCEPT ![s] = LoadReturn(c, c.moduleId)]
                /\ loadedSinceClear' = Loaded(LoadReturn(c, c.moduleId))
        /\ UNCHANGED <<activeInstances, now, files, uploads, vfile, vresult, stats, serviceVars>>

---------------------------------------------------------------------------
(* executeFunction *)

ExecReturn(c, result) ==
    [c EXCEPT !.pc = AfterExec(c), !.execOutcome = "returned", !.result = result]

\* executeFunction letting the error escape
ExecCatch_Rethrow(c, message) ==
    [c EXCEPT !.pc = AfterExec(c), !.execOutcome = "threw"]

\* executeFunction instantiating and calling again after a trap
ExecCatch_Retry(c, message) ==
    IF message = "unreachable"
    THEN [c EXCEPT !.pc = "instantiating"]
    ELSE ExecReturn(c, ExecutionFailure(message))

\* catch (error) { return { result: null, ..., success: false, error: error.message } }
ExecCatch(c, message) == ExecReturn(c, ExecutionFailure(message))

\* executeFunction from its call to the await of engine.instantiate
ExecuteFunctionEntry(c0, moduleId, functionName, args, config) ==
    LET c == [c0 EXCEPT !.moduleId = moduleId, !.functionName = functionName,
                        !.args = args, !.config = config, !.startTime = now]
    IN  IF moduleId \notin DOMAIN moduleCache
        THEN ExecCatch(c, "Module " \o moduleId \o " not found")
        ELSE [c EXCEPT !.pc = "instantiating", !.module = moduleCache[moduleId].module]

\* the executeFunction calls made: every function of every module the cache may
\* hold, a module that is never loaded, a configured timeout, WASI
ExecRequests ==
    {[moduleId |-> generateModuleId(d), functionName |-> f, args |-> a,
      config |-> IF f = "spin" THEN TimeoutConfig ELSE DefaultConfig] :
        d \in {ModA} \cup {String(p) : p \in Paths}, f \in FunctionNames, a \in ArgLists}
    \cup {[moduleId |-> generateModuleId(ModA), functionName |-> "identity",
           args |-> a, config |-> WasiConfig] : a \in ArgLists}
    \cup {[moduleId |-> generateModuleId(BadMagic), functionName |-> "identity",
           args |-> a, config |-> DefaultConfig] : a \in ArgLists}

\* a caller calls executeFunction with one of the given requests
ExecuteFunctionFrom(s, requests) ==
    /\ CanStart(s)
    /\ \E r \in requests :
          calls' = [calls EXCEPT ![s] =
                       ExecuteFunctionEntry([IdleCall EXCEPT !.kind = "exec"],
                                            r.moduleId, r.functionName, r.args, r.config)]
    /\ UNCHANGED <<moduleCache, activeInstances, now, files, uploads, vfile, vresult,
                   loadedSinceClear, stats, serviceVars>>

ExecuteFunction(s) == ExecuteFunctionFrom(s, ExecRequests)

\* loadModule called with a module that exports one page of memory
LoadWithMemory(s) ==
    LoadModuleFrom(s, {[wasmData |-> ModA, config |-> c] :
                          c \in {DefaultConfig, MemoryLimitConfig}})

\* executeFunction called with and without memory limits in its config
ExecuteLimited(s) ==
    ExecuteFunctionFrom(s, {[moduleId |-> generateModuleId(ModA), functionName |-> f,
                             args |-> a, config |-> c] :
                               f \in {"identity", "trap"}, a \in ArgLists,
                               c \in {DefaultConfig, MemoryLimitConfig}})

\* what the guest does when func(...args) is called
GuestBehaviour(functionName) ==
    CASE functionName = "identity" -> "returns"
      [] functionName = "trap" -> "throws"
      [] OTHER -> "hangs"

GuestResult(functionName, args) == args[1]

InstanceRecord(instance, moduleId, functionName, createdAt) ==
    [instance |-> instance, moduleId |-> moduleId, functionName |-> functionName,
     createdAt |-> createdAt]

\* executeFunction without `if (!func) throw ...`: undefined is called
LookupAndInvoke_NoCheck(c) ==
    IF InstanceGet(c.instance, c.functionName) = Undefined
    THEN ExecCatch(c, "func is not a function")
    ELSE IF GuestBehaviour(c.functionName) = "throws"
    THEN [ExecCatch(c, "unreachable") EXCEPT !.invoked = TRUE]
    ELSE [c EXCEPT !.pc = "running", !.invoked = TRUE]

\* the lookup `if (!func) throw ...` and the call func(...args)
LookupAndInvoke(c) ==
    IF InstanceGet(c.instance, c.functionName) = Undefined
    THEN ExecCatch(c, "Function " \o c.functionName \o " not found in module")
    ELSE IF GuestBehaviour(c.functionName) = "throws"
    THEN [ExecCatch(c, "unreachable") EXCEPT !.invoked = TRUE]
    ELSE [c EXCEPT !.pc = "running", !.invoked = TRUE]

\* engine.instantiate settles; createInstance returns; the instance is registered,
\* the function looked up and called
ExecInstantiated(s) ==
    LET c == calls[s]
    IN  /\ c.pc = "instantiating"
        /\ \E linked \in BOOLEAN :
              IF ~linked
              THEN /\ calls' = [calls EXCEPT ![s] = ExecCatch(c, "LinkError")]
                   /\ UNCHANGED activeInstances
              ELSE IF c.config.enableWasi
              THEN \* createWasi() returns an object without start()
                   /\ calls' = [calls EXCEPT ![s] =
                                   ExecCatch(c, "wasi.start is not a function")]
                   /\ UNCHANGED activeInstances
              ELSE LET instance == [type |-> "Instance", module |-> c.module,
                                    memory |-> MemoryOf(c.module)]
                       instanceId == generateInstanceId(c.moduleId, c.functionName, now)
                   IN  /\ activeInstances' =
                              MapSet(activeInstances, instanceId,
                                     InstanceRecord(instance, c.moduleId,
                                                    c.functionName, now))
                       /\ calls' = [calls EXCEPT ![s] =
                                       LookupAndInvoke([c EXCEPT !.instance = instance,
                                                                 !.instanceId = instanceId])]
        /\ UNCHANGED <<moduleCache, now, files, uploads, vfile, vresult, loadedSinceClear, stats,
            serviceVars>>

\* the activeInstances map after the success path's cleanup
Release(instanceId) == MapDelete(activeInstances, instanceId)

\* the success path deleting the module it ran from the cache as well
ExecGuestReturned_Evicting(s) ==
    LET c == calls[s]
    IN  /\ c.pc = "running"
        /\ GuestBehaviour(c.functionName) = "returns"
        /\ activeInstances' = Release(c.instanceId)
        /\ moduleCache' = MapDelete(moduleCache, c.moduleId)
        /\ \E instructions \in InstructionCounts :
              calls' = [calls EXCEPT ![s] =
                           ExecReturn([c EXCEPT !.deleted = MapHas(activeInstances,
                                                                   c.instanceId)],
                                      ExecutionSuccess(
                               GuestResult(c.functionName, c.args), now - c.startTime,
                               getMemoryUsage(c.instance), instructions))]
        /\ UNCHANGED <<now, files, uploads, vfile, vresult, loadedSinceClear, stats, serviceVars>>

\* await func(...args) resolves: the success path
ExecGuestReturned(s) ==
    LET c == calls[s]
    IN  /\ c.pc = "running"
        /\ GuestBehaviour(c.functionName) = "returns"
        /\ activeInstances' = Release(c.instanceId)
        /\ \E instructions \in InstructionCounts :
              calls' = [calls EXCEPT ![s] =
                           ExecReturn([c EXCEPT !.deleted = MapHas(activeInstances,
                                                                   c.instanceId)],
                                      ExecutionSuccess(
                               GuestResult(c.functionName, c.args), now - c.startTime,
                               getMemoryUsage(c.instance), instructions))]
        /\ UNCHANGED <<moduleCache, now, files, uploads, vfile, vresult, loadedSinceClear, stats,
            serviceVars>>

---------------------------------------------------------------------------
(* The other operations of the runtime, and its environment *)

ClearCache ==
    /\ moduleCache' = [id \in {} |-> Undefined]
    /\ loadedSinceClear' = {}
    /\ UNCHANGED <<activeInstances, now, files, calls, uploads, vfile, vresult, stats,
            serviceVars>>

\* expiry at the age of five minutes already
Expired_AtLimit(record) == now - record.createdAt >= expireTime

\* now.getTime() - instance.createdAt.getTime() > expireTime
Expired(record) == now - record.createdAt > expireTime

\* setInterval(() => wasmRuntime.cleanupInstances(), 60000)
CleanupInstances ==
    /\ \E id \in DOMAIN activeInstances : Expired(activeInstances[id])
    /\ activeInstances' =
          [id \in {i \in DOMAIN activeInstances : ~Expired(activeInstances[i])} |->
              activeInstances[id]]
    /\ UNCHANGED <<moduleCache, now, files, calls, uploads, vfile, vresult,
                   loadedSinceClear, stats, serviceVars>>

\* (instance.memoryUsed || 0) of a record of activeInstances
MemoryUsedOr0(record) ==
    IF "memoryUsed" \in DOMAIN record THEN record.memoryUsed ELSE 0

RECURSIVE TotalMemoryUsage(_, _)
\* Array.from(map.values()).reduce((total, instance) => total + ..., 0) over ids
TotalMemoryUsage(map, ids) ==
    IF ids = {} THEN 0
    ELSE LET id == CHOOSE i \in ids : TRUE
         IN  MemoryUsedOr0(map[id]) + TotalMemoryUsage(map, ids \ {id})

\* calculateCacheHitRate: the literal 0.95, in hundredths
calculateCacheHitRate == 95

\* WebAssemblyRuntime.getStats, in the present state
getStats ==
    [loadedModules |-> Cardinality(DOMAIN moduleCache),
     activeInstances |-> Cardinality(DOMAIN activeInstances),
     totalMemoryUsage |-> TotalMemoryUsage(activeInstances, DOMAIN activeInstances),
     cacheHitRate |-> calculateCacheHitRate,
     called |-> TRUE]

\* getStats() called with every field of the runtime emptied behind it
GetStats_Draining ==
    /\ stats' = getStats
    /\ moduleCache' = [id \in {} |-> Undefined]
    /\ activeInstances' = [id \in {} |-> Undefined]
    /\ UNCHANGED <<now, files, calls, uploads, vfile, vresult, loadedSinceClear, serviceVars>>

\* GET /api/wasm/stats: wasmRuntime.getStats() is called and its value kept
GetStats ==
    /\ stats' = getStats
    /\ UNCHANGED <<moduleCache, activeInstances, now, files, calls, uploads, vfile,
                   vresult, loadedSinceClear, serviceVars>>

\* the instants at which something happens: the start, a millisecond later, and
\* the first instant at which a record made at the start has expired
Instants == {0, 1, expireTime + 1}

\* time passes
Tick ==
    /\ \E t \in Instants : t > now /\ now' = t
    /\ UNCHANGED <<moduleCache, activeInstances, files, calls, uploads, vfile, vresult,
                   loadedSinceClear, stats, serviceVars>>

\* somebody replaces the file behind a path
ChangeFile(path) ==
    /\ \E content \in FileContents \ {files[path]} :
          files' = [files EXCEPT ![path] = content]
    /\ UNCHANGED <<moduleCache, activeInstances, now, calls, uploads, vfile, vresult,
                   loadedSinceClear, stats, serviceVars>>

---------------------------------------------------------------------------
(* POST /api/wasm/execute *)

\* the requests received: form "ok", "nofile" (no wasmFile field) or "badjson" (args
\* or config is not JSON)
Request(form, wasmFile, functionName, config) ==
    [form |-> form, wasmFile |-> wasmFile, name |-> "m.wasm",
     functionName |-> functionName, args |-> <<Number(42)>>, config |-> config]

PostRequests ==
    {Request("ok", ModA, f, IF f = "spin" THEN TimeoutConfig ELSE DefaultConfig) :
        f \in FunctionNames}
    \cup {Request("ok", BadMagic, "identity", DefaultConfig),
          Request("nofile", Undefined, "identity", DefaultConfig),
          Request("badjson", ModA, "identity", DefaultConfig)}

\* the outer catch: status 500
PostError(c, message) ==
    [c EXCEPT !.pc = "done",
              !.response = Response(500, FALSE,
                                    IF message = ""
                                    THEN "Failed to execute WebAssembly module"
                                    ELSE message,
                                    None, NoResult)]

\* the request arrives; await request.formData()
PostReceive(s) ==
    /\ CanStart(s)
    /\ \E r \in PostRequests :
          calls' = [calls EXCEPT ![s] =
                       [IdleCall EXCEPT !.kind = "post", !.pc = "parsing", !.request = r]]
    /\ UNCHANGED <<moduleCache, activeInstances, now, files, uploads, vfile, vresult,
                   loadedSinceClear, stats, serviceVars>>

\* the form data is there: the fields are read, the directory is made
PostParsed(s) ==
    LET c == calls[s]
    IN  /\ c.pc = "parsing"
        /\ calls' = [calls EXCEPT ![s] =
              CASE c.request.form = "badjson" -> PostError(c, "Unexpected token")
                [] c.request.form = "nofile" ->
                     [c EXCEPT !.pc = "done",
                               !.response = Response(400, FALSE,
                                                     "WebAssembly file is required",
                                                     None, NoResult)]
                [] OTHER -> [c EXCEPT !.pc = "mkdir"]]
        /\ UNCHANGED <<moduleCache, activeInstances, now, files, uploads, vfile, vresult,
                       loadedSinceClear, stats, serviceVars>>

\* fileName = `${Date.now()}-${wasmFile.name}`; writeFile(filePath, buffer) is called
PostMkdirDone(s) ==
    LET c == calls[s]
    IN  /\ c.pc = "mkdir"
        /\ calls' = [calls EXCEPT ![s] =
              [c EXCEPT !.pc = "writing",
                        !.filePath = "uploads/" \o ToString(now) \o "-" \o c.request.name]]
        /\ UNCHANGED <<moduleCache, activeInstances, now, files, uploads, vfile, vresult,
                       loadedSinceClear, stats, serviceVars>>

\* writeFile settles; on success loadModule(buffer, config) is called
PostWritten(s) ==
    LET c == calls[s]
    IN  /\ c.pc = "writing"
        /\ \E written \in BOOLEAN :
              IF written
              THEN /\ uploads' = uploads \cup {c.filePath}
                   /\ calls' = [calls EXCEPT ![s] =
                                   LoadModuleEntry(c, c.request.wasmFile, c.request.config)]
                   /\ loadedSinceClear' =
                          Loaded(LoadModuleEntry(c, c.request.wasmFile, c.request.config))
              ELSE /\ uploads' = uploads
                   /\ calls' = [calls EXCEPT ![s] = PostError(c, "ENOSPC")]
                   /\ UNCHANGED loadedSinceClear
        /\ UNCHANGED <<moduleCache, activeInstances, now, files, vfile, vresult, stats,
            serviceVars>>

\* the handler rethrowing a load error without unlinking the temporary file
PostLoaded_NoCleanup(s) ==
    LET c == calls[s]
    IN  /\ c.pc = "loaded"
        /\ calls' = [calls EXCEPT ![s] =
              IF c.loadOutcome = "threw"
              THEN PostError(c, c.loadError)
              ELSE ExecuteFunctionEntry(c, c.loadValue, c.request.functionName,
                                        c.request.args, c.request.config)]
        /\ UNCHANGED <<moduleCache, activeInstances, now, files, uploads, vfile, vresult,
                       loadedSinceClear, stats, serviceVars>>

\* loadModule settled: executeFunction is called, or the error path unlinks
PostLoaded(s) ==
    LET c == calls[s]
    IN  /\ c.pc = "loaded"
        /\ calls' = [calls EXCEPT ![s] =
              IF c.loadOutcome = "threw"
              THEN [c EXCEPT !.pc = "unlinking"]
              ELSE ExecuteFunctionEntry(c, c.loadValue, c.request.functionName,
                                        c.request.args, c.request.config)]
        /\ UNCHANGED <<moduleCache, activeInstances, now, files, uploads, vfile, vresult,
                       loadedSinceClear, stats, serviceVars>>

\* unlink settled (its errors are ignored); the response is sent
PostUnlinked(s) ==
    LET c == calls[s]
    IN  /\ c.pc = "unlinking"
        /\ uploads' = uploads \ {c.filePath}
        /\ calls' = [calls EXCEPT ![s] =
              IF c.loadOutcome = "threw"
              THEN PostError(c, c.loadError)
              ELSE [c EXCEPT !.pc = "done",
                             !.response = Response(200, TRUE, "", c.loadValue, c.result)]]
        /\ UNCHANGED <<moduleCache, activeInstances, now, files, vfile, vresult,
                       loadedSinceClear, stats, serviceVars>>

---------------------------------------------------------------------------
(* FileStorageService.uploadWasmFile *)

AlteredByte(b) == b + 1

\* headers that differ from the WebAssembly header in any set of bytes
Heads ==
    {[i \in 1..8 |-> IF i \in altered THEN AlteredByte(WasmHeader[i]) ELSE WasmHeader[i]] :
        altered \in SUBSET (1..8)}

FileLengths == {0, 3, 4, 7, 8, 9, MaxWasmFileSize, MaxWasmFileSize + 1}

Min(a, b) == IF a < b THEN a ELSE b

\* the files handed to uploadWasmFile
UploadedFiles ==
    {Buffer(SubSeq(h, 1, Min(n, 8)), n, IF n > 8 THEN "codeA" ELSE "") :
        h \in Heads, n \in FileLengths}

InitUpload ==
    /\ moduleCache = [id \in {} |-> Undefined]
    /\ activeInstances = [id \in {} |-> Undefined]
    /\ now = 0
    /\ files \in [Paths -> {ModA}]
    /\ calls = [s \in Slots |-> IdleCall]
    /\ uploads = {}
    /\ vfile \in UploadedFiles
    /\ vresult = NoUpload
    /\ loadedSinceClear = {}
    /\ stats = NoStats
    /\ ServicesInit

\* uploadWasmFile: validateWasmFile(file), then uploadFile, which may fail at S3
UploadWasmFile ==
    /\ ~vresult.called
    /\ LET v == validateWasmFile(vfile)
       IN  IF v.threw
           THEN vresult' = [called |-> TRUE, threw |-> TRUE, message |-> v.message,
                            stored |-> FALSE]
           ELSE \E sent \in BOOLEAN :
                   vresult' = [called |-> TRUE, threw |-> ~sent,
                               message |-> IF sent THEN ""
                                           ELSE "Failed to upload file: S3",
                               stored |-> sent]
    /\ UNCHANGED <<moduleCache, activeInstances, now, files, calls, uploads, vfile,
                   loadedSinceClear, stats, serviceVars>>


\* a stored upload is loaded for execution: loadModule(buffer) on its bytes
LoadUploaded(s) ==
    /\ vresult.stored
    /\ LoadModuleFrom(s, {[wasmData |-> vfile, config |-> DefaultConfig]})

---------------------------------------------------------------------------
(* Deployments: POST /api/deployments and the edge 'deploy' action *)

\* the deployments the model lets the handlers create
MaxDeployments == 2

DeploymentIds == 1..MaxDeployments

\* a row of the deployment table, with what the creating handler returned
DeploymentRow(origin, status) ==
    [status |-> status, origin |-> origin, returned |-> status, scaled |-> FALSE,
     deleted |-> FALSE]

StatusOf(id) ==
    IF id \in DOMAIN deployments THEN deployments[id].status ELSE "absent"

\* a handler that forgets to arm its timer
SetTimeout_Never(pending, id) == pending

\* setTimeout(async () => { await db.deployment.update(...) }, delay)
SetTimeout(pending, id) == pending \cup {id}

\* db.deployment.create({ data: { ..., status: 'deploying' } }) resolves, the timer
\* is armed and the row is returned
CreateDeployment(origin) ==
    LET id == Cardinality(DOMAIN deployments) + 1
    IN  /\ serverRunning
        /\ id \in DeploymentIds
        /\ deployments' = MapSet(deployments, id, DeploymentRow(origin, "deploying"))
        /\ timers' = SetTimeout(timers, id)
        /\ UNCHANGED <<serverRunning, now, runtimeState, usageVars, monitorVars,
                       stripeVars, socketVars>>

\* POST /api/deployments with its required fields
PostDeployment == CreateDeployment("api")

\* POST /api/edge { action: 'deploy' }
DeployToEdge == CreateDeployment("edge")

\* the deferred callback runs: db.deployment.update({ where: { id }, data: { status:
\* 'active' } }), which rejects when the row is gone
DeploymentTimer(id) ==
    /\ serverRunning
    /\ id \in timers
    /\ timers' = timers \ {id}
    /\ deployments' =
          IF deployments[id].deleted THEN deployments
          ELSE [deployments EXCEPT ![id].status = "active"]
    /\ UNCHANGED <<serverRunning, now, runtimeState, usageVars, monitorVars,
                   stripeVars, socketVars>>

\* POST /api/edge { action: 'scale' }: the config of the row is rewritten
ScaleDeployment(id) ==
    /\ serverRunning
    /\ id \in DOMAIN deployments
    /\ ~deployments[id].deleted
    /\ ~deployments[id].scaled
    /\ deployments' = [deployments EXCEPT ![id].scaled = TRUE]
    /\ UNCHANGED <<timers, serverRunning, now, runtimeState, usageVars, monitorVars,
                   stripeVars, socketVars>>

\* the row is removed from the table by somebody else
RemoveDeployment(id) ==
    /\ id \in DOMAIN deployments
    /\ ~deployments[id].deleted
    /\ deployments' = [deployments EXCEPT ![id].deleted = TRUE]
    /\ UNCHANGED <<timers, serverRunning, now, runtimeState, usageVars, monitorVars,
                   stripeVars, socketVars>>

\* the server process ends, and its timers with it
ServerStops ==
    /\ serverRunning
    /\ serverRunning' = FALSE
    /\ timers' = {}
    /\ UNCHANGED <<deployments, now, runtimeState, usageVars, monitorVars, stripeVars,
                   socketVars>>


---------------------------------------------------------------------------
(* Usage metering: POST of the usage route *)

\* planLimits.FREE
FreePlanLimits ==
    [modules |-> 3, deployments |-> 2, apiRequests |-> 10000, bandwidth |-> 1024,
     buildMinutes |-> 100, collaborators |-> 1]

\* the metric the requests of the model report
Metric == "deployments"

\* limits[metric] || 0
LimitOf(metric) == FreePlanLimits[metric]

\* the positive values a request may carry
UsageValues == {1, 2}

RECURSIVE SumOf(_)
\* _sum.value of the aggregate over the stored records
SumOf(records) ==
    IF records = <<>> THEN 0 ELSE records[1] + SumOf(SubSeq(records, 2, Len(records)))

\* the request is authorised and parsed, the user found; db.usageRecord.aggregate
\* is awaited
PostUsage(s) ==
    /\ usageCalls[s].pc = "idle"
    /\ \E value \in UsageValues :
          usageCalls' = [usageCalls EXCEPT ![s] =
                            [IdleUsage EXCEPT !.pc = "aggregating", !.value = value]]
    /\ UNCHANGED <<usageRecords, now, runtimeState, deployVars, monitorVars,
                   stripeVars, socketVars>>

\* the aggregate resolves: totalUsage is computed and compared with the limit, and
\* either db.billingEvent.create or db.usageRecord.create is awaited
UsageAggregated(s) ==
    LET c == usageCalls[s]
        totalUsage == SumOf(usageRecords) + c.value
        limit == LimitOf(Metric)
    IN  /\ c.pc = "aggregating"
        /\ usageCalls' = [usageCalls EXCEPT ![s] =
                             [c EXCEPT !.totalUsage = totalUsage,
                                       !.pc = IF limit # -1 /\ totalUsage > limit
                                              THEN "billing" ELSE "creating"]]
        /\ UNCHANGED <<usageRecords, now, runtimeState, deployVars, monitorVars,
                       stripeVars, socketVars>>

\* db.billingEvent.create resolves: 429 'Usage limit exceeded'
UsageRefused(s) ==
    /\ usageCalls[s].pc = "billing"
    /\ usageCalls' = [usageCalls EXCEPT ![s].pc = "done", ![s].status = 429]
    /\ UNCHANGED <<usageRecords, now, runtimeState, deployVars, monitorVars,
                   stripeVars, socketVars>>

\* db.usageRecord.create resolves: the record is stored and returned
UsageRecorded(s) ==
    /\ usageCalls[s].pc = "creating"
    /\ usageRecords' = Append(usageRecords, usageCalls[s].value)
    /\ usageCalls' = [usageCalls EXCEPT ![s].pc = "done", ![s].status = 200]
    /\ UNCHANGED <<now, runtimeState, deployVars, monitorVars, stripeVars, socketVars>>


---------------------------------------------------------------------------
(* MonitoringService and its HTTP API *)

\* the alerts the model lets the service hold
MaxAlerts == 2

\* MonitoringService.thresholds
Thresholds ==
    << [metric |-> "errorRate", operator |-> ">", value |-> 5],
       [metric |-> "responseTime", operator |-> ">", value |-> 1000],
       [metric |-> "memoryUsage", operator |-> ">", value |-> 90],
       [metric |-> "cpuUsage", operator |-> ">", value |-> 80],
       [metric |-> "activeInstances", operator |-> "<", value |-> 1] >>

\* samples of collectMetrics, within the ranges of its random draws
MetricSamples ==
    [requests : {500}, errors : {0, 25, 30}, responseTime : {219},
     memoryUsage : {0, 99}, cpuUsage : {0, 99}, activeInstances : {1}]

\* the value checkThresholds compares for a threshold; the error rate of the
\* samples is a whole number of percent
ValueOf(metric, name) ==
    IF name = "errorRate" THEN (metric.errors * 100) \div metric.requests
    ELSE metric[name]

evaluateThreshold(value, operator, threshold) ==
    CASE operator = ">" -> value > threshold
      [] operator = "<" -> value < threshold
      [] operator = ">=" -> value >= threshold
      [] operator = "<=" -> value <= threshold
      [] operator = "=" -> value = threshold
      [] OTHER -> FALSE

\* createAlert at the instant dateNow: id is Date.now().toString()
createAlert(list, threshold, dateNow) ==
    Append(list, [id |-> ToString(dateNow),
                  title |-> threshold.metric \o " threshold exceeded",
                  timestamp |-> dateNow, resolved |-> FALSE])

RECURSIVE checkThresholds(_, _, _, _, _)
\* thresholds.forEach from index i on; the clock moves by `elapse` milliseconds
\* between two alerts
checkThresholds(i, metric, list, dateNow, elapse) ==
    IF i > Len(Thresholds) THEN list
    ELSE IF evaluateThreshold(ValueOf(metric, Thresholds[i].metric),
                              Thresholds[i].operator, Thresholds[i].value)
    THEN checkThresholds(i + 1, metric, createAlert(list, Thresholds[i], dateNow),
                         dateNow + elapse, elapse)
    ELSE checkThresholds(i + 1, metric, list, dateNow, elapse)

\* cron '* * * * *': collectMetrics() then checkThresholds()
CronMinute ==
    \E metric \in MetricSamples, elapse \in {0, 1} :
        LET after == checkThresholds(1, metric, alerts, now, elapse)
        IN  /\ Len(after) > Len(alerts)
            /\ Len(after) <= MaxAlerts
            /\ alerts' = after
            /\ now' = now + elapse * (Len(after) - Len(alerts))
            /\ UNCHANGED <<monitorReqs, runtimeState, deployVars, usageVars, stripeVars,
                           socketVars>>

oneDay == 24 * 60 * 60 * 1000

\* cron '0 * * * *': cleanupOldData() drops the resolved alerts older than a day
CleanupOldData ==
    LET kept(alert) == ~alert.resolved \/ alert.timestamp > now - oneDay
    IN  /\ \E i \in 1..Len(alerts) : ~kept(alerts[i])
        /\ alerts' = SelectSeq(alerts, kept)
        /\ UNCHANGED <<monitorReqs, now, runtimeState, deployVars, usageVars,
                       stripeVars, socketVars>>

\* the instants the model lets the monitoring clock jump to
MonitorInstants == {1, oneDay + 1}

MonitorTick ==
    /\ \E t \in MonitorInstants : t > now /\ now' = t
    /\ UNCHANGED <<monitorVars, runtimeState, deployVars, usageVars, stripeVars,
                   socketVars>>

\* alerts.find(a => a.id === alertId): the index of the first match, 0 if none
FindAlert(list, alertId) ==
    LET matches == {i \in 1..Len(list) : list[i].id = alertId}
    IN  IF matches = {} THEN 0 ELSE CHOOSE i \in matches : \A j \in matches : i <= j

\* resolveAlert(alertId): the list afterwards
resolveAlert(list, alertId) ==
    IF FindAlert(list, alertId) = 0 THEN list
    ELSE [list EXCEPT ![FindAlert(list, alertId)].resolved = TRUE]

\* req.url as req.url.split('/') yields it
Urls ==
    { <<"", "alerts">>, <<"", "metrics">>, <<"", "health">>, <<"", "alerts", "">>,
      <<"", "alerts", "resolve">>, <<"", "alerts", "0">>, <<"", "alerts", "1">> }

Methods == {"GET", "POST"}

\* req.url.startsWith('/alerts/')
StartsWithAlerts(url) == Len(url) >= 3 /\ url[1] = "" /\ url[2] = "alerts"

\* req.url.split('/').pop()
Pop(url) == url[Len(url)]

\* a request reaches the server
RequestArrives(s) ==
    /\ monitorReqs[s].pc = "idle"
    /\ \E method \in Methods, url \in Urls :
          monitorReqs' = [monitorReqs EXCEPT ![s] =
                             [NoHttpRequest EXCEPT !.pc = "received",
                                                   !.method = method, !.url = url]]
    /\ UNCHANGED <<alerts, now, runtimeState, deployVars, usageVars, stripeVars,
                   socketVars>>

\* res.writeHead(status); res.end(...)
Respond(req, status) ==
    [req EXCEPT !.pc = "handled", !.responses = @ + 1, !.status = status]

\* the request listener of createServer: what it answers
Answer(req) ==
    IF req.method = "GET" /\ req.url \in {<<"", "alerts">>, <<"", "metrics">>}
    THEN Respond(req, 200)
    ELSE IF req.method = "POST" /\ StartsWithAlerts(req.url)
    THEN IF Pop(req.url) # "" /\ Pop(req.url) # "resolve"
         THEN Respond(req, IF FindAlert(alerts, Pop(req.url)) # 0 THEN 200 ELSE 404)
         ELSE [req EXCEPT !.pc = "handled"]
    ELSE Respond(req, 404)

\* the request listener runs
HandleRequest(s) ==
    LET req == monitorReqs[s]
    IN  /\ req.pc = "received"
        /\ monitorReqs' = [monitorReqs EXCEPT ![s] = Answer(req)]
        /\ alerts' =
              IF /\ req.method = "POST"
                 /\ StartsWithAlerts(req.url)
                 /\ Pop(req.url) # ""
                 /\ Pop(req.url) # "resolve"
              THEN resolveAlert(alerts, Pop(req.url))
              ELSE alerts
        /\ UNCHANGED <<now, runtimeState, deployVars, usageVars, stripeVars, socketVars>>


---------------------------------------------------------------------------
(* The Stripe webhook endpoint *)

\* the event types the switch of POST has a handler for
HandledTypes ==
    {"invoice.payment_succeeded", "invoice.payment_failed",
     "customer.subscription.created", "customer.subscription.updated",
     "customer.subscription.deleted", "payment_method.attached"}

EventTypes == HandledTypes \cup {"charge.refunded"}

\* NextResponse.json({ received: true })
Acknowledge(w) == [w EXCEPT !.pc = "done", !.status = 200, !.received = TRUE]

\* an error response of the endpoint
WebhookError(w, status) == [w EXCEPT !.pc = "done", !.status = status]

\* the delivery arrives: signature check, JSON.parse(body), the switch on
\* event.type up to the handler's first database call
WebhookReceive(s) ==
    /\ webhooks[s].pc = "idle"
    /\ \E signature \in BOOLEAN, parses \in BOOLEAN, type \in EventTypes :
          LET w == [IdleWebhook EXCEPT !.signature = signature, !.type = type]
          IN  webhooks' = [webhooks EXCEPT ![s] =
                  IF ~signature THEN WebhookError(w, 400)
                  ELSE IF ~parses THEN WebhookError([w EXCEPT !.type = None], 500)
                  ELSE IF type \in HandledTypes THEN [w EXCEPT !.pc = "finding"]
                  ELSE Acknowledge(w)]
    /\ UNCHANGED <<now, runtimeState, deployVars, usageVars, monitorVars, socketVars>>

\* db.user.findFirst settles: the handler goes on to its updates, returns when
\* there is no such user, or logs the error in its catch and returns
WebhookUserLookup(s) ==
    LET w == webhooks[s]
    IN  /\ w.pc = "finding"
        /\ \E outcome \in {"found", "missing", "rejected"} :
              webhooks' = [webhooks EXCEPT ![s] =
                  CASE outcome = "found" -> [w EXCEPT !.pc = "updating", !.user = TRUE]
                    [] outcome = "missing" -> Acknowledge(w)
                    [] outcome = "rejected" -> Acknowledge([w EXCEPT !.failed = TRUE])]
        /\ UNCHANGED <<now, runtimeState, deployVars, usageVars, monitorVars, socketVars>>

\* the handler's database updates settle: on a rejection its catch logs the error
\* and the handler returns normally; POST answers { received: true } either way
WebhookUpdates(s) ==
    LET w == webhooks[s]
    IN  /\ w.pc = "updating"
        /\ \E resolved \in BOOLEAN :
              webhooks' = [webhooks EXCEPT ![s] =
                  IF resolved THEN Acknowledge([w EXCEPT !.updated = TRUE])
                  ELSE Acknowledge([w EXCEPT !.failed = TRUE])]
        /\ UNCHANGED <<now, runtimeState, deployVars, usageVars, monitorVars, socketVars>>


---------------------------------------------------------------------------
(* The useWebSocket hook *)

\* the calls of sendMessage, joinRoom and leaveRoom the model lets a component make
MaxEmits == 2

\* the events sendMessage, joinRoom and leaveRoom emit
EmitEvents == {"message", "join:room", "leave:room"}

\* the effect runs after the first render: io(url) makes a socket that connects
\* in the background (rooms is taken to be empty)
Mount ==
    /\ ~hook.mounted /\ hook.socket = None
    /\ hook' = [hook EXCEPT !.mounted = TRUE, !.socket = "socket"]
    /\ UNCHANGED <<wire, now, runtimeState, deployVars, usageVars, monitorVars,
                   stripeVars>>

\* socket 'connect': setIsConnected(true); socket.io-client sends what it held back
SocketConnect ==
    /\ hook.mounted /\ ~hook.connected
    /\ hook' = [hook EXCEPT !.connected = TRUE, !.isConnected = TRUE,
                            !.sendBuffer = <<>>]
    /\ wire' = wire \o hook.sendBuffer
    /\ UNCHANGED <<now, runtimeState, deployVars, usageVars, monitorVars, stripeVars>>

\* socket 'disconnect': setIsConnected(false); the socket will reconnect
SocketDisconnect ==
    /\ hook.mounted /\ hook.connected
    /\ hook' = [hook EXCEPT !.connected = FALSE, !.isConnected = FALSE]
    /\ UNCHANGED <<wire, now, runtimeState, deployVars, usageVars, monitorVars,
                   stripeVars>>

\* the component renders again: sendMessage, joinRoom and leaveRoom are made anew
\* and close over the current isConnected
Render ==
    /\ hook.mounted
    /\ hook.rendered # hook.isConnected
    /\ hook' = [hook EXCEPT !.rendered = hook.isConnected]
    /\ UNCHANGED <<wire, now, runtimeState, deployVars, usageVars, monitorVars,
                   stripeVars>>

\* socket.emit(event, ...): sent when the socket is connected, held back otherwise
SocketEmit(message) ==
    IF hook.connected
    THEN /\ wire' = Append(wire, message)
         /\ hook' = [hook EXCEPT !.emits = @ + 1]
    ELSE /\ wire' = wire
         /\ hook' = [hook EXCEPT !.emits = @ + 1,
                                 !.sendBuffer = Append(@, message)]

\* sendMessage, joinRoom or leaveRoom of the last render is called:
\* if (socketRef.current && isConnected) socketRef.current.emit(...)
Emit(event) ==
    /\ hook.mounted
    /\ hook.emits < MaxEmits
    /\ IF hook.socket # None /\ hook.rendered
       THEN SocketEmit([event |-> event, n |-> hook.emits + 1,
                        isConnected |-> hook.isConnected])
       ELSE /\ hook' = [hook EXCEPT !.emits = @ + 1]
            /\ wire' = wire
    /\ UNCHANGED <<now, runtimeState, deployVars, usageVars, monitorVars, stripeVars>>

\* the effect's cleanup: socket.disconnect()
Unmount ==
    /\ hook.mounted
    /\ hook' = [hook EXCEPT !.mounted = FALSE, !.connected = FALSE,
                            !.isConnected = FALSE]
    /\ UNCHANGED <<wire, now, runtimeState, deployVars, usageVars, monitorVars,
                   stripeVars>>

---------------------------------------------------------------------------
(* Specifications *)

\* the continuations the event loop runs once they are ready
Continue(s) ==
    \/ LoadFileRead(s)
    \/ LoadCompiled(s)
    \/ ExecInstantiated(s)
    \/ ExecGuestReturned(s)

Next ==
    \/ \E s \in Slots : LoadModule(s)
    \/ \E s \in Slots : LoadFileRead(s)
    \/ \E s \in Slots : LoadCompiled(s)
    \/ \E s \in Slots : ExecuteFunction(s)
    \/ \E s \in Slots : ExecInstantiated(s)
    \/ \E s \in Slots : ExecGuestReturned(s)
    \/ ClearCache
    \/ CleanupInstances
    \/ Tick
    \/ \E path \in Paths : ChangeFile(path)

\* the runtime, called directly
Spec == Init /\ [][Next]_vars

\* every ready continuation is eventually run
FairSpec == Spec /\ \A s \in Slots : WF_vars(Continue(s))

\* the handler and the runtime behind it, for the requests in the slots S
NextHttp(S) ==
    \/ \E s \in S : PostReceive(s)
    \/ \E s \in S : PostParsed(s)
    \/ \E s \in S : PostMkdirDone(s)
    \/ \E s \in S : PostWritten(s)
    \/ \E s \in S : PostLoaded(s)
    \/ \E s \in S : PostUnlinked(s)
    \/ \E s \in S : LoadCompiled(s)
    \/ \E s \in S : ExecInstantiated(s)
    \/ \E s \in S : ExecGuestReturned(s)
    \/ ClearCache
    \/ Tick

\* POST /api/wasm/execute, MaxRequests requests at a time
HttpSpec == InitHttp /\ [][NextHttp(HttpSlots)]_vars

\* POST /api/wasm/execute, a request in every slot
ConcurrentHttpSpec == InitHttp /\ [][NextHttp(Slots)]_vars

\* loadModule given buffers of any length and header
NextValidation ==
    \/ \E s \in Slots : LoadBuffer(s)
    \/ \E s \in Slots : LoadCompiled(s)
    \/ ClearCache

ValidationSpec == Init /\ [][NextValidation]_vars

\* the runtime called with memory limits
NextLimits ==
    \/ \E s \in Slots : LoadWithMemory(s)
    \/ \E s \in Slots : LoadCompiled(s)
    \/ \E s \in Slots : ExecuteLimited(s)
    \/ \E s \in Slots : ExecInstantiated(s)
    \/ \E s \in Slots : ExecGuestReturned(s)
    \/ Tick

LimitsSpec == Init /\ [][NextLimits]_vars

\* the handler and GET /api/wasm/stats, at one instant
NextStats ==
    \/ \E s \in HttpSlots : PostReceive(s)
    \/ \E s \in HttpSlots : PostParsed(s)
    \/ \E s \in HttpSlots : PostMkdirDone(s)
    \/ \E s \in HttpSlots : PostWritten(s)
    \/ \E s \in HttpSlots : PostLoaded(s)
    \/ \E s \in HttpSlots : PostUnlinked(s)
    \/ \E s \in HttpSlots : LoadCompiled(s)
    \/ \E s \in HttpSlots : ExecInstantiated(s)
    \/ \E s \in HttpSlots : ExecGuestReturned(s)
    \/ ClearCache
    \/ GetStats

StatsSpec == InitHttp /\ [][NextStats]_vars

\* the upload path
UploadSpec == InitUpload /\ [][UploadWasmFile]_vars


\* the deployment handlers and their timers
NextDeploy ==
    \/ PostDeployment
    \/ DeployToEdge
    \/ \E id \in DeploymentIds : DeploymentTimer(id)
    \/ \E id \in DeploymentIds : ScaleDeployment(id)
    \/ \E id \in DeploymentIds : RemoveDeployment(id)
    \/ ServerStops

\* a timer that is due runs while the process is alive
DeploySpec ==
    Init /\ [][NextDeploy]_vars /\ \A id \in DeploymentIds : WF_vars(DeploymentTimer(id))


\* POST usage requests of one user for one metric in one period
NextUsage ==
    \/ \E s \in Slots : PostUsage(s)
    \/ \E s \in Slots : UsageAggregated(s)
    \/ \E s \in Slots : UsageRefused(s)
    \/ \E s \in Slots : UsageRecorded(s)

UsageSpec == Init /\ [][NextUsage]_vars


\* the monitoring service: its cron jobs and the requests to its server
NextMonitor ==
    \/ CronMinute
    \/ CleanupOldData
    \/ MonitorTick
    \/ \E s \in HttpSlots : RequestArrives(s)
    \/ \E s \in HttpSlots : HandleRequest(s)

\* the listener of a received request runs
MonitorSpec ==
    Init /\ [][NextMonitor]_vars /\ \A s \in HttpSlots : WF_vars(HandleRequest(s))


\* a file goes through uploadWasmFile and is then loaded by the runtime
NextUploadLoad ==
    \/ UploadWasmFile
    \/ \E s \in HttpSlots : LoadUploaded(s)
    \/ \E s \in HttpSlots : LoadCompiled(s)

UploadLoadSpec == InitUpload /\ [][NextUploadLoad]_vars


\* deliveries to the Stripe webhook endpoint
NextWebhook ==
    \/ \E s \in Slots : WebhookReceive(s)
    \/ \E s \in Slots : WebhookUserLookup(s)
    \/ \E s \in Slots : WebhookUpdates(s)

WebhookSpec == Init /\ [][NextWebhook]_vars


\* a component using useWebSocket, and its socket
NextSocket ==
    \/ Mount
    \/ SocketConnect
    \/ SocketDisconnect
    \/ Render
    \/ \E event \in EmitEvents : Emit(event)
    \/ Unmount

SocketSpec == Init /\ [][NextSocket]_vars

---------------------------------------------------------------------------
(* Properties *)

\* C1: once executeFunction has returned, on whichever path, the instance record it
\* added to activeInstances is gone.
C1_InstanceReleasedOnReturn ==
    \A s \in Slots :
        (calls[s].execOutcome # "pending" /\ calls[s].instanceId # None)
            => calls[s].instanceId \notin DOMAIN activeInstances

\* C2: no two engine compiles of the same module ID are in progress at the same
\* time, so concurrent loads of the same uncached bytes compile once.
C2_SingleFlight ==
    \A s, t \in Slots :
        (s # t /\ calls[s].pc = "compiling" /\ calls[t].pc = "compiling")
            => calls[s].moduleId # calls[t].moduleId

\* the loads of this wasmData that have returned a module ID with no clearCache
\* since
LoadedBefore(wasmData) == {l \in loadedSinceClear : l.wasmData = wasmData}

\* slot s enters loadModule in this step
EntersLoad(s) == calls[s].wasmData = Undefined /\ calls'[s].wasmData # Undefined

C4_IdByContent ==
    \A s, t \in Slots :
        (calls[s].loadOutcome = "returned" /\ calls[t].loadOutcome = "returned")
            => ((calls[s].loadValue = calls[t].loadValue)
                    <=> (calls[s].binary = calls[t].binary))

\* C5: no step removes a module from moduleCache while an execution that
\* registered an instance of it has not returned.
C5_NoEvictionWhileInUse ==
    [][\A id \in DOMAIN moduleCache :
          (\E s \in Slots : /\ calls[s].pc = "running"
                            /\ calls[s].moduleId = id
                            /\ calls[s].instanceId \in DOMAIN activeInstances)
              => id \in DOMAIN moduleCache']_vars

\* C6: an execution with maxExecutionTime set whose guest never returns
\* eventually returns a failed result, and its instance record is removed.
C6_TimeoutReturns ==
    \A s \in Slots :
        (/\ calls[s].pc = "running"
         /\ calls[s].config.maxExecutionTime > 0
         /\ GuestBehaviour(calls[s].functionName) = "hangs")
        ~> (/\ calls[s].execOutcome = "returned"
            /\ ~calls[s].result.success
            /\ calls[s].instanceId \notin DOMAIN activeInstances)

\* C7: an execution that has its instance and asks for a function the module does
\* not export has returned success=false with an error naming the function,
\* without throwing and without calling the guest.
C7_FunctionNotFound ==
    \A s \in Slots :
        (calls[s].instance # Undefined /\ calls[s].functionName \notin GuestFunctions)
            => /\ calls[s].execOutcome = "returned"
               /\ calls[s].result.success = FALSE
               /\ calls[s].result.result = Null
               /\ calls[s].result.error
                      = "Function " \o calls[s].functionName \o " not found in module"
               /\ ~calls[s].invoked

C7_Witness ==
    \E s \in Slots :
        /\ calls[s].kind = "exec"
        /\ calls[s].instance # Undefined
        /\ calls[s].functionName = "missing"
        /\ calls[s].pc = "done"

\* C8: executeFunction never throws: it ends with a result, and a failed result
\* has success=false, result=null and an error message; the POST handler ends
\* with a response of status 200, 400 or 500, and with 500 when loadModule threw.
C8_FaultsAreData ==
    \A s \in Slots :
        /\ calls[s].execOutcome # "threw"
        /\ (calls[s].execOutcome = "returned" /\ ~calls[s].result.success)
              => /\ calls[s].result.result = Null
                 /\ calls[s].result.error # ""
        /\ (calls[s].kind = "post" /\ calls[s].pc = "done")
              => /\ calls[s].response.status \in {200, 400, 500}
                 /\ calls[s].loadOutcome = "threw" => calls[s].response.status = 500
                 /\ calls[s].execOutcome = "returned"
                       => /\ calls[s].response.status = 200
                          /\ calls[s].response.result = calls[s].result

\* a request was answered with the failed result of an execution whose module had
\* left the cache
C8_Witness ==
    \E s \in Slots :
        /\ calls[s].kind = "post" /\ calls[s].pc = "done"
        /\ calls[s].response.status = 200
        /\ calls[s].execOutcome = "returned"
        /\ calls[s].result.error = "Module " \o calls[s].moduleId \o " not found"

\* C9: no two executions ever get the same instance ID.
C9_DistinctInstanceIds ==
    \A s, t \in Slots :
        (s # t /\ calls[s].instanceId # None /\ calls[t].instanceId # None)
            => calls[s].instanceId # calls[t].instanceId

\* the first of the four checks, in the order length, magic, version, size, that
\* a file fails, read off its bytes
C10_FirstFailedCheck(file) ==
    IF file.length < 8 THEN "length"
    ELSE IF SubSeq(file.head, 1, 4) # <<0, 97, 115, 109>> THEN "magic"
    ELSE IF SubSeq(file.head, 5, 8) # <<1, 0, 0, 0>> THEN "version"
    ELSE IF file.length > 104857600 THEN "size"
    ELSE "none"

\* the check an error message belongs to
C10_CheckOfMessage(message) ==
    CASE message = "File too small to be a valid WebAssembly module" -> "length"
      [] message = "Invalid WebAssembly file: wrong magic number" -> "magic"
      [] message = "WebAssembly file too large (max 100MB)" -> "size"
      [] Len(message) > 33
         /\ SubSeq(message, 1, 33) = "Unsupported WebAssembly version: " -> "version"
      [] OTHER -> "other"

\* C10: validateWasmFile throws the message of the first check, in the order
\* length >= 8, magic, version, size <= 100MB, that the file fails, and accepts
\* exactly the files that fail none.
C10_ValidateWasmFile ==
    vresult.called =>
        IF C10_FirstFailedCheck(vfile) = "none"
        THEN vresult.stored \/ C10_CheckOfMessage(vresult.message) = "other"
        ELSE /\ vresult.threw
             /\ ~vresult.stored
             /\ C10_CheckOfMessage(vresult.message) = C10_FirstFailedCheck(vfile)

\* a file over 100MB with a wrong magic number and a wrong version was rejected
C10_Witness ==
    /\ vresult.called /\ vresult.threw
    /\ vfile.length > 104857600
    /\ vfile.head[4] # 109
    /\ vfile.head[5] # 1

\* a buffer that is too short, or whose magic number or version field is wrong
C11_Rejectable(buffer) ==
    IF buffer.length < 8 THEN TRUE
    ELSE \/ SubSeq(buffer.head, 1, 4) # <<0, 97, 115, 109>>
         \/ SubSeq(buffer.head, 5, 8) # <<1, 0, 0, 0>>

\* an error of loadModule that carries a reason after its prefix
C11_HasReason(c) ==
    /\ c.loadOutcome = "threw"
    /\ Len(c.loadError) > Len("Failed to load WebAssembly module: ")

C12_Loads == {s \in Slots : calls[s].wasmData # Undefined}

C12_Hits == {s \in C12_Loads : calls[s].hit}

\* C12: the cacheHitRate of getStats is the fraction of the loadModule calls so
\* far that were served from moduleCache (in hundredths: rate * loads = 100 * hits).
C12_HitRateIsMeasured ==
    C12_Loads # {}
        => getStats.cacheHitRate * Cardinality(C12_Loads) = 100 * Cardinality(C12_Hits)

\* the executeFunction calls that have created an instance and not yet returned
C13_Executing ==
    {s \in Slots : calls[s].instanceId # None /\ calls[s].execOutcome = "pending"}

\* the binaries the cache holds modules of
C13_CachedBinaries == {moduleCache[id].module.compiledFrom : id \in DOMAIN moduleCache}

\* C13: in every state getStats reports as loadedModules the number of distinct
\* modules cached and as activeInstances the number of executions that have
\* created an instance and not returned (0 when none is in progress).
C13_SnapshotAccurate ==
    /\ getStats.loadedModules = Cardinality(C13_CachedBinaries)
    /\ getStats.activeInstances = Cardinality(C13_Executing)

\* the capacity configured: room for one module of the size the callers load
C14_Capacity == ModA.length

RECURSIVE C14_TotalSize(_)
\* the total size of the entries of moduleCache with the given ids
C14_TotalSize(ids) ==
    IF ids = {} THEN 0
    ELSE LET id == CHOOSE i \in ids : TRUE
         IN  moduleCache[id].size + C14_TotalSize(ids \ {id})

\* C14: when the modules cached come from distinct binaries, the total size of
\* the entries held in moduleCache does not exceed the capacity.
C14_CacheBounded ==
    Cardinality(C13_CachedBinaries) = Cardinality(DOMAIN moduleCache)
        => C14_TotalSize(DOMAIN moduleCache) <= C14_Capacity

\* C15: an execution configured with memory limits never returns a successful
\* result whose memoryUsed (bytes) is above config.memory.max (pages of 64 KiB).
C15_MemoryWithinLimit ==
    \A s \in Slots :
        (/\ calls[s].execOutcome = "returned"
         /\ calls[s].result.success
         /\ calls[s].config.memory # Undefined)
            => calls[s].result.memoryUsed <= calls[s].config.memory.max * 65536

C17_ResponseSurfacesOutcome ==
    \A s \in Slots :
        (/\ calls[s].kind = "post"
         /\ calls[s].pc = "done"
         /\ calls[s].execOutcome = "returned")
            => /\ calls[s].response.success = calls[s].result.success
               /\ ~calls[s].result.success
                     => \/ calls[s].response.error = calls[s].result.error
                        \/ calls[s].response.result.error = calls[s].result.error

\* C18: a call that has invoked the guest never instantiates or invokes again, a
\* call that has called the engine compile never reads or compiles again, an
\* outcome once there never changes, and the handler answers with the load error
\* or the failed result as it got it.
C18_NoRetry ==
    [][\A s \in Slots :
          /\ calls[s].invoked
                => /\ calls'[s].pc # "instantiating"
                   /\ calls'[s].pc = "running" => calls[s].pc = "running"
          /\ calls[s].compiled
                => /\ calls'[s].pc # "reading"
                   /\ calls'[s].pc = "compiling" => calls[s].pc = "compiling"
          /\ calls[s].loadOutcome # "pending"
                => /\ calls'[s].loadOutcome = calls[s].loadOutcome
                   /\ calls'[s].loadValue = calls[s].loadValue
                   /\ calls'[s].loadError = calls[s].loadError
          /\ calls[s].execOutcome # "pending"
                => /\ calls'[s].execOutcome = calls[s].execOutcome
                   /\ calls'[s].result = calls[s].result
          /\ (calls[s].kind = "post" /\ calls[s].pc # "done" /\ calls'[s].pc = "done")
                => /\ calls[s].loadOutcome = "threw"
                         => calls'[s].response.error = calls[s].loadError
                   /\ calls[s].execOutcome = "returned"
                         => calls'[s].response.result = calls[s].result]_vars

\* a request whose guest trapped was answered with the failed result of the one
\* call of the guest
C18_Witness ==
    \E s \in Slots :
        /\ calls[s].kind = "post" /\ calls[s].pc = "done"
        /\ calls[s].invoked
        /\ calls[s].result.error = "unreachable"
        /\ calls[s].response.result = calls[s].result

\* C19: a step in which getStats returns a new snapshot changes neither
\* moduleCache nor activeInstances nor any call.
C19_GetStatsReadOnly ==
    [][stats' # stats
          => /\ moduleCache' = moduleCache
             /\ activeInstances' = activeInstances
             /\ calls' = calls]_vars

\* getStats was called on a runtime holding a module and an instance record, and
\* it still holds them
C19_Witness ==
    /\ stats.called
    /\ stats.loadedModules = 1 /\ stats.activeInstances = 1
    /\ Cardinality(DOMAIN moduleCache) = 1
    /\ Cardinality(DOMAIN activeInstances) = 1

\* the module IDs returned by loads since the last clearCache
C20_LoadedIds == {l.moduleId : l \in loadedSinceClear}

\* slot s enters executeFunction in this step
C20_EntersExec(s) == calls[s].functionName = None /\ calls'[s].functionName # None

\* executeFunction of slot s returns in this step
C20_Completes(s) == calls[s].execOutcome = "pending" /\ calls'[s].execOutcome # "pending"

C22_Kept == {id \in DOMAIN activeInstances :
                now - activeInstances[id].createdAt <= expireTime}

\* a step of cleanupInstances: records go while no call moves
C22_CleanupStep == calls' = calls /\ activeInstances' # activeInstances

\* call s returns from a guest whose record was removed before
C22_LateCompletion(s) ==
    /\ calls[s].pc = "running"
    /\ calls'[s].pc # "running"
    /\ ~MapHas(activeInstances, calls[s].instanceId)

C23_UsageWithinLimit ==
    /\ SumOf(usageRecords) <= LimitOf(Metric)
    /\ Len(usageRecords) = Cardinality({s \in Slots : usageCalls[s].status = 200})

\* C24: no two alerts of the service have the same id.
C24_DistinctAlertIds ==
    \A i, j \in 1..Len(alerts) : i # j => alerts[i].id # alerts[j].id

\* C25: every request the monitoring server received is eventually answered, and
\* none is answered twice.
C25_EveryRequestAnswered ==
    /\ \A s \in HttpSlots :
          (monitorReqs[s].pc = "received") ~> (monitorReqs[s].responses = 1)
    /\ [](\A s \in HttpSlots : monitorReqs[s].responses <= 1)

\* C26: a buffer accepted by validateWasmFile is accepted by validateWasmBinary:
\* the load of a stored upload is never rejected by the runtime's validation, it
\* reaches engine.module or is a cache hit.
C26_UploadedIsLoadable ==
    /\ vresult.stored => ~validateWasmBinary(vfile).threw
    /\ \A s \in HttpSlots :
          (calls[s].kind = "load" /\ calls[s].wasmData = vfile)
              => calls[s].compiled \/ calls[s].hit

\* a stored upload of the largest accepted size was loaded and its ID returned
C26_Witness ==
    \E s \in HttpSlots :
        /\ vresult.stored
        /\ vfile.length = MaxWasmFileSize
        /\ calls[s].wasmData = vfile
        /\ calls[s].loadOutcome = "returned"

\* C27: the entry cached for a module ID is fixed by the first successful load:
\* no step replaces the entry of an ID that stays in the cache.
C27_CachedEntryFixed ==
    [][\A id \in DOMAIN moduleCache :
          id \in DOMAIN moduleCache' => moduleCache'[id] = moduleCache[id]]_vars

C29_AcknowledgedAfterUpdates ==
    \A s \in Slots :
        webhooks[s].pc = "done" =>
            /\ (webhooks[s].received /\ webhooks[s].user) => webhooks[s].updated
            /\ webhooks[s].failed => (~webhooks[s].received /\ webhooks[s].status >= 500)

\* C30: whatever the hook's functions emitted was emitted while the isConnected
\* state was true: nothing of a call made while it was false is held back or sent.
C30_EmitsOnlyWhileConnected ==
    /\ \A i \in 1..Len(wire) : wire[i].isConnected
    /\ \A i \in 1..Len(hook.sendBuffer) : hook.sendBuffer[i].isConnected

====
